---- MODULE Spec2Model ----
(***************************************************************************)
(* A model of dprint-plugin-sql (src/src/lib.rs): the configuration        *)
(* resolver resolve_config with the ConfigurationBuilder that feeds it,    *)
(* and the post-format pipeline of format_text.                            *)
(*                                                                         *)
(* Text is a sequence of bytes drawn from {CR, LF, X, Q}; X stands for any *)
(* byte that is neither a carriage return nor a line feed, Q for the quote *)
(* of a literal.  Configuration strings are sequences of one-character     *)
(* strings, so that to_string and parse are computed character by          *)
(* character.  dprint_core and sqlformat are libraries the repository      *)
(* calls; their functions are modelled by what the calls in lib.rs get     *)
(* from them.                                                              *)
(***************************************************************************)
EXTENDS Integers, Sequences, FiniteSets, TLC

VARIABLES
    config,         \* ConfigurationBuilder.config : ConfigKeyMap (key -> ConfigKeyValue)
    global_config,  \* ConfigurationBuilder.global_config : Option<GlobalConfiguration>
    resolved,       \* the PluginResolveConfigurationResult of build / resolve_config
    pc,             \* position of the driver of the specification at hand
    input_text,     \* format_text: the text argument
    fmt_config,     \* format_text: the Configuration argument
    windows,        \* cfg!(windows) of the build
    formatted,      \* format_text: what sqlformat::format returned
    terminated,     \* format_text: the text after "ensure ends with newline"
    eol,            \* format_text: what resolve_new_line_kind returned
    text,           \* format_text: the text after the two normalization steps
    result,         \* format_text: Ok(None) or Ok(Some(text))
    again,          \* the normalization steps applied to their own result
    history         \* the results of the format_text calls made so far

vars == <<config, global_config, resolved, pc, input_text, fmt_config, windows,
          formatted, terminated, eol, text, result, again, history>>

cfgVars == <<config, global_config, resolved>>
fmtVars == <<input_text, fmt_config, windows, formatted, terminated, eol, text, result,
             again, history>>

----------------------------------------------------------------------------
(* Bounds of the model.                                                    *)

\* Largest number of keys held by the override map.
MaxOverrides == 2
\* Longest input text and longest formatter output.
MaxLen == 3
\* Longest body of the quoted literal handed to the formatter.
MaxBody == 3
\* Largest number of format_text calls in a row.
MaxCalls == 3

----------------------------------------------------------------------------
(* Option<T>.                                                              *)

None == [some |-> FALSE]
Some(v) == [some |-> TRUE, value |-> v]
unwrap_or(opt, default_value) == IF opt.some THEN opt.value ELSE default_value

----------------------------------------------------------------------------
(* ConfigKeyValue and the strings it is rendered to.                       *)

\* The enum ConfigKeyValue as a record: kind is the variant, and the field of
\* that variant carries its payload (the other two are left at a filler).
Bool(x) == [kind |-> "Bool", b |-> x, n |-> 0, s |-> <<>>]
Number(x) == [kind |-> "Number", b |-> FALSE, n |-> x, s |-> <<>>]
String(x) == [kind |-> "String", b |-> FALSE, n |-> 0, s |-> x]
Null == [kind |-> "Null", b |-> FALSE, n |-> 0, s |-> <<>>]

s_true == <<"t", "r", "u", "e">>
s_false == <<"f", "a", "l", "s", "e">>
s_auto == <<"a", "u", "t", "o">>
s_lf == <<"l", "f">>
s_crlf == <<"c", "r", "l", "f">>
s_system == <<"s", "y", "s", "t", "e", "m">>
s_four == <<"4">>

DigitChars == <<"0", "1", "2", "3", "4", "5", "6", "7", "8", "9">>

RECURSIVE nat_to_string(_)
nat_to_string(n) ==
    IF n < 10 THEN <<DigitChars[n + 1]>>
    ELSE nat_to_string(n \div 10) \o <<DigitChars[(n % 10) + 1]>>

\* i32::to_string
i32_to_string(n) == IF n < 0 THEN <<"-">> \o nat_to_string(0 - n) ELSE nat_to_string(n)

\* bool::to_string
bool_to_string(b) == IF b THEN s_true ELSE s_false

\* NewLineKind::to_string
new_line_kind_to_string(k) ==
    CASE k = "Auto" -> s_auto
      [] k = "LineFeed" -> s_lf
      [] k = "CarriageReturnLineFeed" -> s_crlf
      [] k = "System" -> s_system

Ok(v) == [ok |-> TRUE, value |-> v]
Err(m) == [ok |-> FALSE, message |-> m]

\* <bool as FromStr>::from_str
parse_bool(s) ==
    IF s = s_true THEN Ok(TRUE)
    ELSE IF s = s_false THEN Ok(FALSE)
    ELSE Err("provided string was not true or false")

DigitValue(c) == CHOOSE d \in 0..9 : DigitChars[d + 1] = c
IsDigit(c) == \E d \in 0..9 : DigitChars[d + 1] = c

\* The accumulation over the digits with the overflow check left out.
RECURSIVE parse_digits_unchecked(_, _)
parse_digits_unchecked(s, acc) ==
    IF Len(s) = 0 THEN Ok(acc)
    ELSE IF ~IsDigit(Head(s)) THEN Err("invalid digit found in string")
    ELSE parse_digits_unchecked(Tail(s), acc * 10 + DigitValue(Head(s)))

\* The checked accumulation of <u8 as FromStr>::from_str over the digits.
RECURSIVE parse_digits(_, _)
parse_digits(s, acc) ==
    IF Len(s) = 0 THEN Ok(acc)
    ELSE IF ~IsDigit(Head(s)) THEN Err("invalid digit found in string")
    ELSE IF acc * 10 + DigitValue(Head(s)) > 255
         THEN Err("number too large to fit in target type")
    ELSE parse_digits(Tail(s), acc * 10 + DigitValue(Head(s)))

\* <u8 as FromStr>::from_str
parse_u8(s) ==
    IF Len(s) = 0 THEN Err("cannot parse integer from empty string")
    ELSE IF Len(s) = 1 /\ Head(s) \in {"+", "-"} THEN Err("invalid digit found in string")
    ELSE IF Head(s) = "+" THEN parse_digits(Tail(s), 0)
    ELSE parse_digits(s, 0)

\* <NewLineKind as FromStr>::from_str
parse_new_line_kind(s) ==
    IF s = s_auto THEN Ok("Auto")
    ELSE IF s = s_lf THEN Ok("LineFeed")
    ELSE IF s = s_crlf THEN Ok("CarriageReturnLineFeed")
    ELSE IF s = s_system THEN Ok("System")
    ELSE Err("Found invalid value.")

\* str::parse::<T>() for the three field types of Configuration.
parse(T, s) ==
    CASE T = "bool" -> parse_bool(s)
      [] T = "u8" -> parse_u8(s)
      [] T = "NewLineKind" -> parse_new_line_kind(s)

----------------------------------------------------------------------------
(* dprint_core::configuration as resolve_config uses it.                   *)

\* The indent width the doc comment of ConfigurationBuilder::indent_width names.
DOCUMENTED_indent_width == 4

\* RECOMMENDED_GLOBAL_CONFIGURATION
RECOMMENDED_use_tabs == FALSE
RECOMMENDED_indent_width == 2
RECOMMENDED_new_line_kind == "LineFeed"

\* The compiled-in defaults of the two fields that have no global analog.
DEFAULT_uppercase == FALSE
DEFAULT_lines_between_queries == 1

\* GlobalConfiguration::default(): every field absent.
DefaultGlobalConfiguration ==
    [use_tabs |-> None, indent_width |-> None, new_line_kind |-> None]

Without(map, key) == [k \in (DOMAIN map) \ {key} |-> map[k]]

\* get_nullable_value with the diagnostic of a parse error dropped.
get_nullable_value_silent(st, key, T) ==
    IF key \notin DOMAIN st.config
    THEN [config |-> st.config, diagnostics |-> st.diagnostics, value |-> None]
    ELSE LET raw == st.config[key]
             rest == Without(st.config, key)
             rendered == CASE raw.kind = "Bool" -> bool_to_string(raw.b)
                           [] raw.kind = "Number" -> i32_to_string(raw.n)
                           [] OTHER -> raw.s
             parsed == parse(T, rendered)
         IN  IF raw.kind # "Null" /\ parsed.ok
             THEN [config |-> rest, diagnostics |-> st.diagnostics,
                   value |-> Some(parsed.value)]
             ELSE [config |-> rest, diagnostics |-> st.diagnostics, value |-> None]

\* get_nullable_value: the key is removed from the map; a Null reads as an
\* absent key; any other value is rendered to a string and parsed as T, and
\* a parse error becomes a diagnostic.
get_nullable_value(st, key, T) ==
    IF key \notin DOMAIN st.config
    THEN [config |-> st.config, diagnostics |-> st.diagnostics, value |-> None]
    ELSE LET raw == st.config[key]
             rest == Without(st.config, key)
             rendered == CASE raw.kind = "Bool" -> bool_to_string(raw.b)
                           [] raw.kind = "Number" -> i32_to_string(raw.n)
                           [] OTHER -> raw.s
             parsed == parse(T, rendered)
         IN  IF raw.kind = "Null"
             THEN [config |-> rest, diagnostics |-> st.diagnostics, value |-> None]
             ELSE IF parsed.ok
             THEN [config |-> rest, diagnostics |-> st.diagnostics,
                   value |-> Some(parsed.value)]
             ELSE [config |-> rest,
                   diagnostics |-> Append(st.diagnostics,
                       [property_name |-> key, message |-> parsed.message]),
                   value |-> None]

\* get_value: get_nullable_value(..).unwrap_or(default_value)
get_value(st, key, default_value, T) ==
    LET got == get_nullable_value(st, key, T)
    IN  [config |-> got.config, diagnostics |-> got.diagnostics,
         value |-> unwrap_or(got.value, default_value)]

\* get_unknown_property_diagnostics: one diagnostic for every key still in
\* the map.  The map is an IndexMap; the order of the keys left in it is
\* abstracted to one fixed order.
RECURSIVE get_unknown_property_diagnostics(_)
get_unknown_property_diagnostics(map) ==
    IF DOMAIN map = {} THEN <<>>
    ELSE LET key == CHOOSE k \in DOMAIN map : TRUE
         IN  <<[property_name |-> key, message |-> "Unknown property in configuration"]>>
             \o get_unknown_property_diagnostics(Without(map, key))

----------------------------------------------------------------------------
(* resolve_config, src/src/lib.rs 152-198.                                 *)

FileMatching == [file_extensions |-> <<"sql">>, file_names |-> <<>>]

\* resolve_config with the global configuration ignored.
resolve_config_no_global(cfg, global) ==
    LET s0 == [config |-> cfg, diagnostics |-> <<>>]
        s1 == get_value(s0, "useTabs", RECOMMENDED_use_tabs, "bool")
        s2 == get_value(s1, "indentWidth", RECOMMENDED_indent_width, "u8")
        s3 == get_value(s2, "newLineKind", RECOMMENDED_new_line_kind, "NewLineKind")
        s4 == get_value(s3, "uppercase", DEFAULT_uppercase, "bool")
        s5 == get_value(s4, "linesBetweenQueries", DEFAULT_lines_between_queries, "u8")
    IN  [config |-> [use_tabs |-> s1.value, indent_width |-> s2.value,
                     new_line_kind |-> s3.value, uppercase |-> s4.value,
                     lines_between_queries |-> s5.value],
         diagnostics |-> s5.diagnostics \o get_unknown_property_diagnostics(s5.config),
         file_matching |-> FileMatching]

\* resolve_config reading the key "upperCase" where the field is "uppercase".
resolve_config_wrong_key(cfg, global) ==
    LET s0 == [config |-> cfg, diagnostics |-> <<>>]
        s1 == get_value(s0, "useTabs",
                        unwrap_or(global.use_tabs, RECOMMENDED_use_tabs), "bool")
        s2 == get_value(s1, "indentWidth",
                        unwrap_or(global.indent_width, RECOMMENDED_indent_width), "u8")
        s3 == get_value(s2, "newLineKind",
                        unwrap_or(global.new_line_kind, RECOMMENDED_new_line_kind),
                        "NewLineKind")
        s4 == get_value(s3, "upperCase", DEFAULT_uppercase, "bool")
        s5 == get_value(s4, "linesBetweenQueries", DEFAULT_lines_between_queries, "u8")
    IN  [config |-> [use_tabs |-> s1.value, indent_width |-> s2.value,
                     new_line_kind |-> s3.value, uppercase |-> s4.value,
                     lines_between_queries |-> s5.value],
         diagnostics |-> s5.diagnostics \o get_unknown_property_diagnostics(s5.config),
         file_matching |-> FileMatching]

resolve_config(cfg, global) ==
    LET s0 == [config |-> cfg, diagnostics |-> <<>>]
        s1 == get_value(s0, "useTabs",
                        unwrap_or(global.use_tabs, RECOMMENDED_use_tabs), "bool")
        s2 == get_value(s1, "indentWidth",
                        unwrap_or(global.indent_width, RECOMMENDED_indent_width), "u8")
        s3 == get_value(s2, "newLineKind",
                        unwrap_or(global.new_line_kind, RECOMMENDED_new_line_kind),
                        "NewLineKind")
        s4 == get_value(s3, "uppercase", DEFAULT_uppercase, "bool")
        s5 == get_value(s4, "linesBetweenQueries", DEFAULT_lines_between_queries, "u8")
    IN  [config |-> [use_tabs |-> s1.value, indent_width |-> s2.value,
                     new_line_kind |-> s3.value, uppercase |-> s4.value,
                     lines_between_queries |-> s5.value],
         diagnostics |-> s5.diagnostics \o get_unknown_property_diagnostics(s5.config),
         file_matching |-> FileMatching]

----------------------------------------------------------------------------
(* The inputs the configuration specification draws from.                  *)

\* The keys resolve_config reads.
ResolvedKeys == {"useTabs", "indentWidth", "newLineKind", "uppercase", "linesBetweenQueries"}

\* Keys resolve_config does not read: the other five keys of the documented
\* vocabulary and one key of no vocabulary.
OtherKeys == {"inline", "maxInlineBlock", "maxInlineArguments", "maxInlineTopLevel",
              "joinsAsTopLevel", "bogus"}

Keys == ResolvedKeys \cup OtherKeys

\* ConfigKeyValue values of every kind: well typed, of the wrong type, out of
\* range, unparseable and null.
Values == {Bool(TRUE), Bool(FALSE), Number(0), Number(4), Number(256), Number(0 - 1),
           String(s_true), String(s_crlf), String(s_four), Null}

OverrideChoices ==
    (ResolvedKeys \X Values)
    \cup {<<"inline", Bool(TRUE)>>, <<"maxInlineBlock", Number(4)>>,
          <<"maxInlineArguments", Number(4)>>, <<"maxInlineTopLevel", Number(4)>>,
          <<"joinsAsTopLevel", Bool(TRUE)>>, <<"bogus", Null>>}

NewLineKinds == {"Auto", "LineFeed", "CarriageReturnLineFeed", "System"}

GlobalChoices ==
    [use_tabs : {None, Some(TRUE)},
     indent_width : {None, Some(0), Some(8)},
     new_line_kind : {None, Some("CarriageReturnLineFeed")}]

EmptyMap == [k \in {} |-> Null]
NoResult == [built |-> FALSE]
NoText == <<>>

----------------------------------------------------------------------------
(* ConfigurationBuilder, src/src/lib.rs 31-99.                             *)

\* ConfigurationBuilder::insert: ConfigKeyMap::insert, which replaces the
\* value of a key the map already holds.
map_insert(map, name, value) ==
    [k \in (DOMAIN map) \cup {name} |-> IF k = name THEN value ELSE map[k]]

insert(name, value) ==
    /\ pc = "building"
    /\ name \in DOMAIN config \/ Cardinality(DOMAIN config) < MaxOverrides
    /\ config' = map_insert(config, name, value)
    /\ UNCHANGED <<global_config, resolved, pc>>
    /\ UNCHANGED fmtVars

use_tabs(value) == insert("useTabs", Bool(value))

indent_width(value) == insert("indentWidth", Number(value))

new_line_kind(value) == insert("newLineKind", String(new_line_kind_to_string(value)))

uppercase(value) == insert("uppercase", Bool(value))

lines_between_queries(value) == insert("linesBetweenQueries", Number(value))

set_global_config(g) ==
    /\ pc = "building"
    /\ global_config' = Some(g)
    /\ UNCHANGED <<config, resolved, pc>>
    /\ UNCHANGED fmtVars

\* ConfigurationBuilder::build, and SqlPluginHandler::resolve_config on the
\* map and the global configuration the host hands over.
build ==
    /\ pc = "building"
    /\ resolved' = [built |-> TRUE] @@
                   (IF global_config.some
                    THEN resolve_config(config, global_config.value)
                    ELSE resolve_config(config, DefaultGlobalConfiguration))
    /\ pc' = "built"
    /\ UNCHANGED <<config, global_config>>
    /\ UNCHANGED fmtVars

Init ==
    /\ config = EmptyMap
    /\ global_config = None
    /\ resolved = NoResult
    /\ pc = "building"
    /\ input_text = NoText
    /\ fmt_config = [use_tabs |-> FALSE, indent_width |-> 2, new_line_kind |-> "LineFeed",
                     uppercase |-> FALSE, lines_between_queries |-> 1]
    /\ windows = FALSE
    /\ formatted = NoText
    /\ terminated = NoText
    /\ eol = NoText
    /\ text = NoText
    /\ result = None
    /\ again = NoText
    /\ history = <<>>

Next ==
    \/ \E c \in OverrideChoices : insert(c[1], c[2])
    \/ \E b \in BOOLEAN : use_tabs(b)
    \/ \E n \in {0, 4} : indent_width(n)
    \/ \E k \in {"LineFeed", "CarriageReturnLineFeed"} : new_line_kind(k)
    \/ \E b \in BOOLEAN : uppercase(b)
    \/ \E n \in {0, 4} : lines_between_queries(n)
    \/ \E g \in GlobalChoices : set_global_config(g)
    \/ build

Spec == Init /\ [][Next]_vars

----------------------------------------------------------------------------
(* format_text, src/src/lib.rs 200-239.                                    *)

CR == "CR"
LF == "LF"
X == "X"
Q == "Q"

\* str::ends_with(char)
ends_with(t, c) == Len(t) > 0 /\ t[Len(t)] = c

\* str::replace: the matches of from are found left to right, each search
\* resuming after the previous match, and replaced by to.
RECURSIVE replace(_, _, _)
replace(t, from, to) ==
    IF Len(t) < Len(from) THEN t
    ELSE IF SubSeq(t, 1, Len(from)) = from
         THEN to \o replace(SubSeq(t, Len(from) + 1, Len(t)), from, to)
    ELSE <<Head(t)>> \o replace(Tail(t), from, to)

\* dprint_core::configuration::resolve_new_line_kind: Auto looks at the byte
\* before the last line feed of the text; System is the build's platform.
resolve_new_line_kind(file_text, kind, win) ==
    CASE kind = "LineFeed" -> <<LF>>
      [] kind = "CarriageReturnLineFeed" -> <<CR, LF>>
      [] kind = "Auto" ->
            LET lfs == {i \in 1..Len(file_text) : file_text[i] = LF}
                last == CHOOSE i \in lfs : \A j \in lfs : j <= i
            IN  IF lfs # {} /\ last > 1 /\ file_text[last - 1] = CR
                THEN <<CR, LF>> ELSE <<LF>>
      [] kind = "System" -> IF win THEN <<CR, LF>> ELSE <<LF>>

\* "ensure ends with newline" with the push left out.
ensure_ends_with_newline_never(t) == t

\* "ensure ends with newline", lines 217-224.
ensure_ends_with_newline(t) == IF ~ends_with(t, LF) THEN Append(t, LF) ELSE t

\* "newline", lines 226-232.
normalize_newlines(t, target) ==
    IF target = <<LF>>
    THEN replace(t, <<CR, LF>>, <<LF>>)
    ELSE replace(replace(t, <<CR, LF>>, <<LF>>), <<LF>>, <<CR, LF>>)

\* The result with the comparison left out: every call reports a change.
detect_change_always(normalized, input) == Some(normalized)

\* Lines 234-238.
detect_change(normalized, input) ==
    IF normalized = input THEN None ELSE Some(normalized)

\* format_text on input, sql being what sqlformat::format returned for it.
format_text(input, cfg, win, sql) ==
    LET ended == ensure_ends_with_newline(sql)
        target == resolve_new_line_kind(ended, cfg.new_line_kind, win)
        normalized == normalize_newlines(ended, target)
    IN  [formatted |-> sql, terminated |-> ended, eol |-> target, text |-> normalized,
         result |-> detect_change(normalized, input)]

\* The two normalization steps alone, as format_text applies them.
normalize(t, cfg, win) ==
    LET ended == ensure_ends_with_newline(t)
    IN  normalize_newlines(ended, resolve_new_line_kind(ended, cfg.new_line_kind, win))

RECURSIVE TextsOf(_, _)
TextsOf(chars, n) ==
    IF n = 0 THEN {<<>>}
    ELSE LET shorter == TextsOf(chars, n - 1)
         IN  shorter \cup {Append(t, c) : t \in shorter, c \in chars}

\* Every text of at most MaxLen bytes.
Texts == TextsOf({CR, LF, X}, MaxLen)

DefaultConfiguration == resolve_config(EmptyMap, DefaultGlobalConfiguration).config

Configurations ==
    {[DefaultConfiguration EXCEPT !.new_line_kind = k] : k \in NewLineKinds}

\* One call of format_text.  The formatter is an opaque function of the
\* input: its output sql is any text.
format ==
    /\ pc = "start"
    /\ \E sql \in Texts :
         LET out == format_text(input_text, fmt_config, windows, sql)
         IN  /\ formatted' = out.formatted
             /\ terminated' = out.terminated
             /\ eol' = out.eol
             /\ text' = out.text
             /\ result' = out.result
    /\ pc' = "formatted"
    /\ UNCHANGED <<input_text, fmt_config, windows, again, history>>
    /\ UNCHANGED cfgVars

\* The normalization steps applied to the text they produced.
renormalize ==
    /\ pc = "formatted"
    /\ again' = normalize(text, fmt_config, windows)
    /\ pc' = "renormalized"
    /\ UNCHANGED <<input_text, fmt_config, windows, formatted, terminated, eol, text,
                   result, history>>
    /\ UNCHANGED cfgVars

InitFormat ==
    /\ config = EmptyMap
    /\ global_config = None
    /\ resolved = NoResult
    /\ pc = "start"
    /\ input_text \in Texts
    /\ fmt_config \in Configurations
    /\ windows \in BOOLEAN
    /\ formatted = NoText
    /\ terminated = NoText
    /\ eol = NoText
    /\ text = NoText
    /\ result = None
    /\ again = NoText
    /\ history = <<>>

NextFormat == format \/ renormalize

SpecFormat == InitFormat /\ [][NextFormat]_vars

----------------------------------------------------------------------------
(* Formatting twice, as run_specs does with format_twice (tests/test.rs    *)
(* 44-47): format_text is called on a text and then on its own output.     *)

\* str::trim over the bytes of the model: CR and LF are the whitespace.
RECURSIVE trim_start(_)
trim_start(t) == IF Len(t) > 0 /\ Head(t) \in {CR, LF} THEN trim_start(Tail(t)) ELSE t
RECURSIVE trim_end(_)
trim_end(t) ==
    IF Len(t) > 0 /\ t[Len(t)] \in {CR, LF} THEN trim_end(SubSeq(t, 1, Len(t) - 1)) ELSE t

\* sqlformat::format on a text that is one quoted literal followed by line
\* breaks: the literal is one token, emitted byte for byte, and the output
\* is trimmed.
sqlformat_format(t) == trim_end(trim_start(t))

\* A quoted literal with a body of at most MaxBody bytes.
Literals == {<<Q>> \o body \o <<Q>> : body \in TextsOf({CR, LF, X}, MaxBody)}

LiteralInputs == {lit \o tail : lit \in Literals, tail \in {<<>>, <<LF>>, <<CR, LF>>}}

\* The text the next call is made on: the input, then the output of the
\* call before (the text itself when that call returned Unchanged).
format_call ==
    /\ pc = "literal"
    /\ Len(history) < MaxCalls
    /\ LET input == IF history # <<>> /\ result.some THEN result.value ELSE input_text
           out == format_text(input, fmt_config, windows, sqlformat_format(input))
       IN  /\ input_text' = input
           /\ formatted' = out.formatted
           /\ terminated' = out.terminated
           /\ eol' = out.eol
           /\ text' = out.text
           /\ result' = out.result
           /\ history' = Append(history, out.result)
    /\ UNCHANGED <<pc, fmt_config, windows, again>>
    /\ UNCHANGED cfgVars

InitTwice ==
    /\ config = EmptyMap
    /\ global_config = None
    /\ resolved = NoResult
    /\ pc = "literal"
    /\ input_text \in LiteralInputs
    /\ fmt_config \in Configurations
    /\ windows \in BOOLEAN
    /\ formatted = NoText
    /\ terminated = NoText
    /\ eol = NoText
    /\ text = NoText
    /\ result = None
    /\ again = NoText
    /\ history = <<>>

NextTwice == format_call

SpecTwice == InitTwice /\ [][NextTwice]_vars

----------------------------------------------------------------------------
(* What the claims about resolve_config expect, stated from the claims:    *)
(* which value of which key is valid, and the field value it stands for.   *)

BoolKeys == {"useTabs", "uppercase"}
U8Keys == {"indentWidth", "linesBetweenQueries"}

IsNumeral(s) == Len(s) > 0 /\ \A i \in 1..Len(s) : s[i] \in {"0", "1", "2", "3", "4",
                                                             "5", "6", "7", "8", "9"}
NumeralValue(s) == CHOOSE n \in 0..999 : nat_to_string(n) = s

ValidFor(key, v) ==
    CASE key \in BoolKeys ->
            v.kind = "Bool" \/ (v.kind = "String" /\ v.s \in {s_true, s_false})
      [] key \in U8Keys ->
            \/ v.kind = "Number" /\ v.n \in 0..255
            \/ v.kind = "String" /\ IsNumeral(v.s) /\ Len(v.s) <= 3
                  /\ NumeralValue(v.s) <= 255
      [] key = "newLineKind" ->
            v.kind = "String" /\ v.s \in {s_auto, s_lf, s_crlf, s_system}
      [] OTHER -> FALSE

ValueOf(key, v) ==
    CASE key \in BoolKeys -> IF v.kind = "Bool" THEN v.b ELSE v.s = s_true
      [] key \in U8Keys -> IF v.kind = "Number" THEN v.n ELSE NumeralValue(v.s)
      [] key = "newLineKind" ->
            CASE v.s = s_auto -> "Auto"
              [] v.s = s_lf -> "LineFeed"
              [] v.s = s_crlf -> "CarriageReturnLineFeed"
              [] v.s = s_system -> "System"

Supplied(key) == key \in DOMAIN config /\ ValidFor(key, config[key])

Global == IF global_config.some THEN global_config.value ELSE DefaultGlobalConfiguration

Layered(key, global_value, default_value) ==
    IF Supplied(key) THEN ValueOf(key, config[key])
    ELSE IF global_value.some THEN global_value.value
    ELSE default_value

DiagCount(key) ==
    Cardinality({i \in 1..Len(resolved.diagnostics) :
                    resolved.diagnostics[i].property_name = key})

\* C2: in the resolved configuration use_tabs, indent_width and new_line_kind
\* are the valid override, else the global value, else the compiled-in
\* default; uppercase and lines_between_queries are the valid override, else
\* the compiled-in default; an invalid override counts as an absent one.
C2_LayeredPrecedence ==
    pc = "built" =>
        /\ resolved.config.use_tabs
             = Layered("useTabs", Global.use_tabs, RECOMMENDED_use_tabs)
        /\ resolved.config.indent_width
             = Layered("indentWidth", Global.indent_width, RECOMMENDED_indent_width)
        /\ resolved.config.new_line_kind
             = Layered("newLineKind", Global.new_line_kind, RECOMMENDED_new_line_kind)
        /\ resolved.config.uppercase = Layered("uppercase", None, DEFAULT_uppercase)
        /\ resolved.config.lines_between_queries
             = Layered("linesBetweenQueries", None, DEFAULT_lines_between_queries)

C2_Witness ==
    /\ pc = "built"
    /\ global_config = Some([use_tabs |-> Some(TRUE), indent_width |-> Some(8),
                             new_line_kind |-> Some("CarriageReturnLineFeed")])
    /\ DOMAIN config = {"useTabs", "indentWidth"}
    /\ config["useTabs"] = Number(256)
    /\ config["indentWidth"] = Number(4)
    /\ resolved.config.use_tabs = TRUE
    /\ resolved.config.indent_width = 4
    /\ resolved.config.new_line_kind = "CarriageReturnLineFeed"

ConfigurationComplete ==
    /\ resolved.config.use_tabs \in BOOLEAN
    /\ resolved.config.indent_width \in 0..255
    /\ resolved.config.new_line_kind \in NewLineKinds
    /\ resolved.config.uppercase \in BOOLEAN
    /\ resolved.config.lines_between_queries \in 0..255

\* C3 as claimed: resolution always yields a fully populated configuration,
\* and the diagnostics hold exactly one entry for every override key that is
\* unrecognized or whose value is invalid, and none for any other key.
C3_OneDiagnosticPerBadKey ==
    pc = "built" =>
        /\ ConfigurationComplete
        /\ \A i \in 1..Len(resolved.diagnostics) :
              resolved.diagnostics[i].property_name \in DOMAIN config
        /\ \A key \in Keys :
              DiagCount(key) = IF key \in DOMAIN config
                                  /\ (key \notin ResolvedKeys \/ ~ValidFor(key, config[key]))
                               THEN 1 ELSE 0

\* C3 amended: as claimed, except that a Null value under a recognized key
\* yields no diagnostic (it reads as an absent key).
C3_OneDiagnosticPerBadNonNullKey ==
    pc = "built" =>
        /\ ConfigurationComplete
        /\ \A i \in 1..Len(resolved.diagnostics) :
              resolved.diagnostics[i].property_name \in DOMAIN config
        /\ \A key \in Keys :
              DiagCount(key) = IF key \in DOMAIN config
                                  /\ \/ key \notin ResolvedKeys
                                     \/ config[key] # Null /\ ~ValidFor(key, config[key])
                               THEN 1 ELSE 0

C3_Witness ==
    /\ pc = "built"
    /\ DOMAIN config = {"indentWidth", "bogus"}
    /\ config["indentWidth"] = Number(256)
    /\ Len(resolved.diagnostics) = 2
    /\ resolved.config.indent_width = 2

\* The ten keys of the documented vocabulary, and the five of them that
\* resolve_config reads.
TenKeys == {"useTabs", "indentWidth", "newLineKind", "uppercase", "linesBetweenQueries",
            "inline", "maxInlineBlock", "maxInlineArguments", "maxInlineTopLevel",
            "joinsAsTopLevel"}
FiveKeys == {"useTabs", "indentWidth", "newLineKind", "uppercase", "linesBetweenQueries"}

\* A well-typed in-range value of a key of the vocabulary.
WellTyped(key, v) ==
    CASE key \in {"useTabs", "uppercase", "inline", "joinsAsTopLevel"} -> v.kind = "Bool"
      [] key \in {"indentWidth", "linesBetweenQueries"} ->
            v.kind = "Number" /\ v.n \in 0..255
      [] key \in {"maxInlineBlock", "maxInlineArguments", "maxInlineTopLevel"} ->
            v.kind = "Number" /\ v.n >= 0
      [] key = "newLineKind" ->
            v.kind = "String" /\ v.s \in {s_auto, s_lf, s_crlf, s_system}
      [] OTHER -> FALSE

FieldOf(key) ==
    CASE key = "useTabs" -> resolved.config.use_tabs
      [] key = "indentWidth" -> resolved.config.indent_width
      [] key = "newLineKind" -> resolved.config.new_line_kind
      [] key = "uppercase" -> resolved.config.uppercase
      [] key = "linesBetweenQueries" -> resolved.config.lines_between_queries

C8_IndentWidthPositive ==
    pc = "built" => resolved.config.indent_width \in 1..255

\* C8 amended: the resolved indent_width is always in 0..255, and it is 0
\* exactly when the valid override is 0, or no valid override is given and
\* the global indent width is 0.
C8_IndentWidthInU8 ==
    pc = "built" =>
        /\ resolved.config.indent_width \in 0..255
        /\ resolved.config.indent_width = 0
             <=> \/ Supplied("indentWidth") /\ ValueOf("indentWidth", config["indentWidth"]) = 0
                 \/ ~Supplied("indentWidth") /\ Global.indent_width = Some(0)

C8_Witness ==
    /\ pc = "built"
    /\ "indentWidth" \in DOMAIN config
    /\ config["indentWidth"] = Number(0)
    /\ resolved.config.indent_width = 0
    /\ resolved.diagnostics = <<>>

----------------------------------------------------------------------------
(* The claims about format_text.                                           *)

Formatted == pc \in {"formatted", "renormalized"}

\* The text the pipeline stands behind: the Changed text, or the input
\* when the result is Unchanged.
StoodBehind == IF result.some THEN result.value ELSE input_text

EndsWithLF(t) == Len(t) >= 1 /\ t[Len(t)] = LF
EndsWithCRLF(t) == Len(t) >= 2 /\ t[Len(t) - 1] = CR /\ t[Len(t)] = LF

\* C6: the text the pipeline stands behind ends with a line feed when the
\* target is LF and with CR LF when the target is CRLF (the target of the
\* kinds LineFeed and CarriageReturnLineFeed being fixed); the pipeline
\* appends one line feed to a formatter output that does not end with one
\* and nothing to one that does.
C6_TrailingNewline ==
    Formatted =>
        /\ fmt_config.new_line_kind = "LineFeed" => eol = <<LF>>
        /\ fmt_config.new_line_kind = "CarriageReturnLineFeed" => eol = <<CR, LF>>
        /\ eol \in {<<LF>>, <<CR, LF>>}
        /\ eol = <<LF>> => EndsWithLF(StoodBehind)
        /\ eol = <<CR, LF>> => EndsWithCRLF(StoodBehind)
        /\ terminated = IF EndsWithLF(formatted) THEN formatted ELSE formatted \o <<LF>>

C6_Witness ==
    /\ pc = "formatted"
    /\ fmt_config.new_line_kind = "CarriageReturnLineFeed"
    /\ formatted = <<X>>
    /\ terminated = <<X, LF>>
    /\ result = Some(<<X, CR, LF>>)

\* C7: format_text returns Unchanged exactly when the normalized text equals
\* the input; a Changed result carries the normalized text, which differs
\* from the input.
C7_NoOpDetection ==
    Formatted =>
        /\ result = None <=> text = input_text
        /\ result.some => result.value = text /\ result.value # input_text

C7_Witness ==
    /\ pc = "formatted"
    /\ input_text = <<X, LF>>
    /\ formatted = <<X>>
    /\ text = <<X, LF>>
    /\ result = None

\* C9: the normalization steps are idempotent: applied to the text they
\* produced, under the same new_line_kind, they give that text again.
C9_NormalizationIdempotent ==
    pc = "renormalized" => again = text

\* C10: the target is resolved from the formatter output after the newline
\* was appended; under target LF the resulting text has no CR immediately
\* followed by LF, and under target CRLF every LF of it follows a CR.
C10_UniformLineEndings ==
    Formatted =>
        /\ eol = resolve_new_line_kind(terminated, fmt_config.new_line_kind, windows)
        /\ eol = <<LF>> =>
              ~\E i \in 1..(Len(text) - 1) : text[i] = CR /\ text[i + 1] = LF
        /\ eol = <<CR, LF>> =>
              \A i \in 1..Len(text) : text[i] = LF => i > 1 /\ text[i - 1] = CR

\* C1: format_text called on the output of format_text, under the same
\* configuration, returns Unchanged.
C1_FormatIdempotent ==
    \A i \in 2..Len(history) : history[i] = None

====
